---- MODULE Spec2Model ----
(***************************************************************************)
(* FuzzingPipelineScheduler (src/main.py): one scheduling cycle            *)
(* (schedule_pipelines) and the prioritisation it runs                     *)
(* (prioritize_projects, with project_ready, get_defect_count, normalize). *)
(*                                                                         *)
(* Conventions.                                                            *)
(*  - Instants are integers (seconds), all comparable with now: the naive  *)
(*    UTC datetimes that datetime.utcnow() can be subtracted from.  An     *)
(*    Optional[datetime] is a sequence: <<>> for None, <<t>> for t.        *)
(*  - Python floats are modelled as exact rationals [num, den], den > 0,   *)
(*    kept in lowest terms; 0.5 is 1/2, the weights are 3/10, 2/10, 4/10.  *)
(*    Rounding is not modelled.                                            *)
(*  - GitLab, DefectDojo and the HTTP library are the environment: what    *)
(*    they answer, or that they raise, is chosen by \E.  __init__ assigns  *)
(*    none of gitlab_url, headers, defectdojo_url and defectdojo_token;    *)
(*    the AttributeError of reading one that nobody assigned is among the  *)
(*    exceptions the call that reads it can raise.                         *)
(*  - schedule_pipelines catches nothing: an exception raised in any step  *)
(*    ends the cycle (pc = "raised").                                      *)
(***************************************************************************)
EXTENDS Integers, Sequences, FiniteSets, TLC

\* ---------------------------------------------------------------- bounds

\* Longest project list discovery returns.
MaxProjects == 3
\* Largest pipeline_run_count discovery reports.
MaxRuns == 1
\* Largest number of findings DefectDojo reports for one product.
MaxDefects == 1
\* normalize called on its own: longest input list and largest value (the
\* values run from -1 to MaxVal).
MaxLen == 3
MaxVal == 3

\* ------------------------------------------------------ program constants

\* datetime.utcnow() of the cycle.
Now == 300000
\* timedelta(hours=24), in seconds.
CooldownSeconds == 86400
\* self.weights, in tenths.
WLastChange == 3
WRunsCount == 2
WDefects == 4
WeightDen == 10

None == <<>>
Some(t) == <<t>>

\* ------------------------------------------------------------- rationals

RECURSIVE Gcd(_, _)
Gcd(a, b) == IF b = 0 THEN a ELSE Gcd(b, a % b)

Abs(x) == IF x < 0 THEN -x ELSE x

\* The rational n/d (d # 0) in lowest terms with a positive denominator.
Frac(n, d) ==
    LET g == Gcd(Abs(n), Abs(d))
        s == IF d < 0 THEN -1 ELSE 1
    IN  [num |-> s * (n \div g), den |-> s * (d \div g)]

FInt(n) == [num |-> n, den |-> 1]
FAdd(x, y) == Frac(x.num * y.den + y.num * x.den, x.den * y.den)
FSub(x, y) == Frac(x.num * y.den - y.num * x.den, x.den * y.den)
FMul(x, y) == Frac(x.num * y.num, x.den * y.den)
FLess(x, y) == x.num * y.den < y.num * x.den
FLeq(x, y) == x.num * y.den <= y.num * x.den

\* ------------------------------------------------------------- min / max

SeqMin(values) ==
    CHOOSE m \in {values[k] : k \in 1..Len(values)} :
        \A k \in 1..Len(values) : m <= values[k]

SeqMax(values) ==
    CHOOSE m \in {values[k] : k \in 1..Len(values)} :
        \A k \in 1..Len(values) : values[k] <= m

\* ------------------------------------------------------------- normalize

normalize_NoEqualCase(values) ==
    IF values = <<>> THEN <<>>
    ELSE LET min_v == SeqMin(values)
             max_v == SeqMax(values)
         IN  [k \in 1..Len(values) |->
                 IF min_v = max_v THEN FInt(0)
                 ELSE Frac(values[k] - min_v, max_v - min_v)]

\* normalize(values): min-max rescale, 0.5 everywhere when all values agree.
normalize(values) ==
    IF values = <<>> THEN <<>>
    ELSE LET min_v == SeqMin(values)
             max_v == SeqMax(values)
         IN  IF min_v = max_v
             THEN [k \in 1..Len(values) |-> Frac(1, 2)]
             ELSE [k \in 1..Len(values) |->
                      Frac(values[k] - min_v, max_v - min_v)]

\* ----------------------------------------------------------- project_ready

project_ready_Or(p) == p.main_branch_exists \/ p.has_gitlab_ci_file

project_ready_BranchOnly(p) == p.main_branch_exists

project_ready(p) == p.main_branch_exists /\ p.has_gitlab_ci_file

\* The cooldown test of prioritize_projects:
\*   p.last_pipeline_run and now - p.last_pipeline_run < timedelta(hours=24)
in_cooldown_Leq(p) ==
    /\ p.last_pipeline_run # None
    /\ Now - p.last_pipeline_run[1] <= CooldownSeconds

in_cooldown(p) ==
    /\ p.last_pipeline_run # None
    /\ Now - p.last_pipeline_run[1] < CooldownSeconds

\* (now - p.last_modified).total_seconds(); the subtraction raises TypeError
\* when last_modified is None.
change_age_Default(p) ==
    IF p.last_modified = None
    THEN [raised |-> FALSE, value |-> 0]
    ELSE [raised |-> FALSE, value |-> Now - p.last_modified[1]]

change_age(p) ==
    IF p.last_modified = None
    THEN [raised |-> TRUE, value |-> 0]
    ELSE [raised |-> FALSE, value |-> Now - p.last_modified[1]]

\* "not available_runners" in schedule_pipelines, on the number collected.
not_available_Never(n) == FALSE

not_available(n) == n = 0

\* ----------------------------------------------------- get_available_runners

\* One page of GET /groups/:id/runners (per_page = 100): the status code
\* and the number of runners on the page.
RunnerPages ==
    [status_code : {200}, n : {0, 1}] \cup [status_code : {500}, n : {0}]

\* The server's answers page by page.  The group's runners fit on the first
\* page, so a second page is empty or an error; past the last listed page
\* the server answers an empty page.
RunnerAnswers ==
    {<<>>} \cup {<<a>> : a \in RunnerPages}
           \cup {<<a, b>> : a \in {q \in RunnerPages : q.n > 0},
                            b \in {q \in RunnerPages : q.n = 0}}

RECURSIVE get_available_runners_from(_, _, _)
get_available_runners_from(pages, page, available_runners) ==
    IF page > Len(pages) THEN [raised |-> FALSE, value |-> available_runners]
    ELSE IF pages[page].status_code # 200
         THEN [raised |-> TRUE, value |-> 0]
    ELSE IF pages[page].n = 0
         THEN [raised |-> FALSE, value |-> available_runners]
    ELSE get_available_runners_from(pages, page + 1,
                                    available_runners + pages[page].n)

\* The number of runners collected, or raised = TRUE on a status other
\* than 200.
get_available_runners(pages) == get_available_runners_from(pages, 1, 0)

\* -------------------------------------------------------- get_fuzzing_projects

\* The field values of a ProjectInfo that prioritize_projects reads.
Fields(main, ci, lm, lpr, runs) ==
    [main_branch_exists |-> main, has_gitlab_ci_file |-> ci,
     last_modified |-> lm, last_pipeline_run |-> lpr,
     pipeline_run_count |-> runs]

\* Two instants of a last commit, the older first.
OlderCommit == Some(Now - 200)
NewerCommit == Some(Now - 100)

\* A last pipeline run one second inside the 24 hours, and one exactly
\* 24 hours ago.
RunInsideCooldown == Some(Now - CooldownSeconds + 1)
RunAtCooldown == Some(Now - CooldownSeconds)

\* Not ready: the branch or the CI file is missing.  The first two carry
\* signals that would rank them first; the third is what
\* get_fuzzing_projects builds when the branch is missing.
NotReadyFields ==
    { Fields(TRUE, FALSE, OlderCommit, None, 0),
      Fields(FALSE, TRUE, OlderCommit, RunAtCooldown, 0),
      Fields(FALSE, FALSE, None, None, 0) }

\* Ready, last run inside the 24 hours; with and without a last commit.
CooldownFields ==
    { Fields(TRUE, TRUE, OlderCommit, RunInsideCooldown, 0),
      Fields(TRUE, TRUE, None, RunInsideCooldown, 0) }

\* Ready, out of cooldown, with a last commit: the older commit with every
\* run count, the newer one with the largest run count and never run, and
\* the newer one with no runs counted and a run exactly 24 hours ago.
EligibleFields ==
    { Fields(TRUE, TRUE, OlderCommit, None, runs) : runs \in 0..MaxRuns }
    \cup { Fields(TRUE, TRUE, NewerCommit, None, MaxRuns),
           Fields(TRUE, TRUE, NewerCommit, RunAtCooldown, 0) }

\* Ready, out of cooldown, no commit on main (commits.list was empty).
NoCommitFields == { Fields(TRUE, TRUE, None, None, 0) }

ProjectFields ==
    NotReadyFields \cup CooldownFields \cup EligibleFields \cup NoCommitFields

\* ProjectInfo(id = k, ...): GitLab ids are distinct; the k-th discovered
\* project gets id k.
ProjectInfo(k, f) ==
    [id |-> k,
     main_branch_exists |-> f.main_branch_exists,
     has_gitlab_ci_file |-> f.has_gitlab_ci_file,
     last_modified |-> f.last_modified,
     last_pipeline_run |-> f.last_pipeline_run,
     pipeline_run_count |-> f.pipeline_run_count]

\* The end-to-end scenario: three ready projects, never run, with
\* pipeline_run_count 10, 0, 5, last commits 100000, 50 and 200000 seconds
\* ago, and 2, 0, 8 open findings in DefectDojo.
ScenarioProjects ==
    << ProjectInfo(1, Fields(TRUE, TRUE, Some(Now - 100000), None, 10)),
       ProjectInfo(2, Fields(TRUE, TRUE, Some(Now - 50), None, 0)),
       ProjectInfo(3, Fields(TRUE, TRUE, Some(Now - 200000), None, 5)) >>

ScenarioDefects == <<2, 0, 8>>

\* The list get_fuzzing_projects returns for the projects with the fields
\* fs[1], ..., fs[len].
ProjectList(fs) == [k \in DOMAIN fs |-> ProjectInfo(k, fs[k])]

\* -------------------------------------------------------- get_defect_count

\* What the DefectDojo integration does on one call of get_defect_count:
\*   not_configured     defectdojo_url / defectdojo_token is falsy
\*   no_products        the product search answers an empty result list
\*   findings           the findings query answers n results
\*   request_exception  requests raises requests.RequestException
\*   other_exception    any other exception: the attributes read on the
\*                      first line are never assigned by __init__
\*                      (AttributeError), project['name'] on a ProjectInfo
\*                      (TypeError), products[0]['id'] (KeyError), ...
\* A project of the end-to-end scenario can also have the findings the
\* scenario gives it.
DefectDojoAnswers(p) ==
    [kind : {"not_configured", "no_products", "request_exception",
             "other_exception"}, n : {0}]
    \cup [kind : {"findings"}, n : 0..MaxDefects]
    \cup { [kind |-> "findings", n |-> ScenarioDefects[k]] :
             k \in {j \in 1..Len(ScenarioProjects) : ScenarioProjects[j] = p} }

\* The call's result: the returned count, or raised = TRUE.
get_defect_count(answer) ==
    CASE answer.kind = "not_configured"    -> [raised |-> FALSE, value |-> 0]
      [] answer.kind = "no_products"       -> [raised |-> FALSE, value |-> 0]
      [] answer.kind = "findings"          -> [raised |-> FALSE, value |-> answer.n]
      [] answer.kind = "request_exception" -> [raised |-> FALSE, value |-> 0]
      [] answer.kind = "other_exception"   -> [raised |-> TRUE, value |-> 0]

\* ------------------------------------------------------------- scoring

InvertAll_Identity(xs) == xs

\* [1 - x for x in self.normalize(run_counts)]
InvertAll(xs) == [k \in 1..Len(xs) |-> FSub(FInt(1), xs[k])]

\* norm_last_change[i] * w['last_change'] + norm_runs_count[i] * w['runs_count']
\*   + norm_defects[i] * w['defects']
score(norm_lc, norm_rc, norm_d, k) ==
    FAdd(FAdd(FMul(norm_lc[k], Frac(WLastChange, WeightDen)),
              FMul(norm_rc[k], Frac(WRunsCount, WeightDen))),
         FMul(norm_d[k], Frac(WDefects, WeightDen)))

\* scored_projects after the scoring loop: (score, p) for each filtered p.
ScoreAll(filtered, norm_lc, norm_rc, norm_d) ==
    [k \in 1..Len(filtered) |->
        [score |-> score(norm_lc, norm_rc, norm_d, k), p |-> filtered[k]]]

\* ---------------------------------------------------------------- sort

RECURSIVE InsertDesc_Unstable(_, _)
InsertDesc_Unstable(sorted, x) ==
    IF sorted = <<>> THEN <<x>>
    ELSE IF FLess(sorted[1].score, x.score) \/ sorted[1].score = x.score
         THEN <<x>> \o sorted
         ELSE <<sorted[1]>> \o InsertDesc_Unstable(Tail(sorted), x)

\* x put into a list sorted by score, highest first, behind every element
\* whose score is at least x's.
RECURSIVE InsertDesc(_, _)
InsertDesc(sorted, x) ==
    IF sorted = <<>> THEN <<x>>
    ELSE IF FLess(sorted[1].score, x.score)
         THEN <<x>> \o sorted
         ELSE <<sorted[1]>> \o InsertDesc(Tail(sorted), x)

RECURSIVE InsertAsc(_, _)
InsertAsc(sorted, x) ==
    IF sorted = <<>> THEN <<x>>
    ELSE IF FLess(x.score, sorted[1].score)
         THEN <<x>> \o sorted
         ELSE <<sorted[1]>> \o InsertAsc(Tail(sorted), x)

RECURSIVE SortDesc_NoReverse(_)
SortDesc_NoReverse(xs) ==
    IF xs = <<>> THEN <<>>
    ELSE InsertAsc(SortDesc_NoReverse(SubSeq(xs, 1, Len(xs) - 1)), xs[Len(xs)])

\* list.sort(reverse=True, key=lambda x: x[0]): by score, highest first,
\* equal scores in their original order.
RECURSIVE SortDesc(_)
SortDesc(xs) ==
    IF xs = <<>> THEN <<>>
    ELSE InsertDesc(SortDesc(SubSeq(xs, 1, Len(xs) - 1)), xs[Len(xs)])

\* prioritize_projects from the normalizations on: the sorted (score, p)
\* pairs for the kept projects and their three signal lists.
RankFiltered(filtered, changes, runs, defects) ==
    SortDesc(ScoreAll(filtered, normalize(changes),
                      InvertAll(normalize(runs)), normalize(defects)))

\* ---------------------------------------------------------------- state

VARIABLES
    pc,                   \* where schedule_pipelines / prioritize_projects is
    available_runners,    \* schedule_pipelines: number of runners collected
    projects,             \* schedule_pipelines: the discovered list
    idx,                  \* prioritize_projects: position of the for loop
    filtered_projects,    \* prioritize_projects: the four parallel lists
    last_changes,
    run_counts,
    defect_counts,
    norm_last_change,     \* prioritize_projects: the normalized signals
    norm_runs_count,
    norm_defects,
    scored_projects,      \* prioritize_projects: (score, p) pairs
    prioritized_projects, \* schedule_pipelines: what prioritize_projects returned
    printed,              \* the message schedule_pipelines printed last
    raised,               \* the call that raised out of the cycle, or "none"
    calls,                \* history: the calls made, in order
    inspected,            \* history: ids whose timestamps were read
    norm_pc,              \* normalize called on its own: "idle", "call", "return"
    values,               \* normalize called on its own: the argument
    normalized            \* normalize called on its own: the result

vars == <<pc, available_runners, projects, idx, filtered_projects,
          last_changes, run_counts, defect_counts, norm_last_change,
          norm_runs_count, norm_defects, scored_projects,
          prioritized_projects, printed, raised, calls, inspected,
          norm_pc, values, normalized>>

cycle_vars == <<pc, available_runners, projects, idx, filtered_projects,
                last_changes, run_counts, defect_counts, norm_last_change,
                norm_runs_count, norm_defects, scored_projects,
                prioritized_projects, printed, raised, calls, inspected>>

normalize_vars == <<norm_pc, values, normalized>>

rank_locals == <<idx, filtered_projects, last_changes, run_counts,
                 defect_counts, norm_last_change, norm_runs_count,
                 norm_defects, scored_projects>>

CycleInit ==
    /\ pc = "step1"
    /\ available_runners = 0
    /\ projects = <<>>
    /\ idx = 0
    /\ filtered_projects = <<>>
    /\ last_changes = <<>>
    /\ run_counts = <<>>
    /\ defect_counts = <<>>
    /\ norm_last_change = <<>>
    /\ norm_runs_count = <<>>
    /\ norm_defects = <<>>
    /\ scored_projects = <<>>
    /\ prioritized_projects = <<>>
    /\ printed = "start"
    /\ raised = "none"
    /\ calls = <<>>
    /\ inspected = {}

Init ==
    /\ CycleInit
    /\ norm_pc = "idle"
    /\ values = <<>>
    /\ normalized = <<>>

\* ------------------------------------------------------ schedule_pipelines

\* Step 1: get_available_runners, return when there is none.
Step1 ==
    /\ UNCHANGED normalize_vars
    /\ pc = "step1"
    /\ \E pages \in RunnerAnswers :
         LET r == get_available_runners(pages)
         IN  /\ calls' = Append(calls, <<"get_available_runners", 0>>)
             /\ IF r.raised
                THEN /\ pc' = "raised"
                     /\ raised' = "get_available_runners"
                     /\ UNCHANGED <<available_runners, printed>>
                ELSE /\ available_runners' = r.value
                     /\ raised' = raised
                     /\ IF not_available(r.value)
                        THEN pc' = "done" /\ printed' = "NoRunners"
                        ELSE pc' = "step2" /\ printed' = printed
    /\ UNCHANGED <<projects, rank_locals, prioritized_projects, inspected>>

\* Step 2: get_fuzzing_projects, return when there is none.  The listing of
\* the group's projects is outside its try block and may raise.
Step2 ==
    /\ UNCHANGED normalize_vars
    /\ pc = "step2"
    /\ calls' = Append(calls, <<"get_fuzzing_projects", 0>>)
    /\ \/ /\ pc' = "raised"
          /\ raised' = "get_fuzzing_projects"
          /\ UNCHANGED <<projects, printed>>
       \/ \E result \in {ScenarioProjects} \cup
                          { ProjectList(fs) :
                              fs \in UNION { [1..len -> ProjectFields] :
                                               len \in 0..MaxProjects } } :
            /\ projects' = result
            /\ raised' = raised
            /\ IF result = <<>>
               THEN pc' = "done" /\ printed' = "NoProjects"
               ELSE pc' = "step3" /\ printed' = printed
    /\ UNCHANGED <<available_runners, rank_locals, prioritized_projects,
                   inspected>>

\* Step 3: the call of prioritize_projects, up to its for loop.
Step3 ==
    /\ UNCHANGED normalize_vars
    /\ pc = "step3"
    /\ calls' = Append(calls, <<"prioritize_projects", 0>>)
    /\ idx' = 1
    /\ filtered_projects' = <<>>
    /\ last_changes' = <<>>
    /\ run_counts' = <<>>
    /\ defect_counts' = <<>>
    /\ pc' = "filter"
    /\ UNCHANGED <<available_runners, projects, norm_last_change,
                   norm_runs_count, norm_defects, scored_projects,
                   prioritized_projects, printed, raised, inspected>>

\* ----------------------------------------------------- prioritize_projects

\* One pass of "for p in projects" that ends in a continue.
FilterSkip ==
    /\ UNCHANGED normalize_vars
    /\ pc = "filter"
    /\ idx <= Len(projects)
    /\ LET p == projects[idx]
       IN  \/ /\ ~project_ready(p)
              /\ inspected' = inspected
           \/ /\ project_ready(p)
              /\ in_cooldown(p)
              /\ inspected' = inspected \cup {p.id}
    /\ idx' = idx + 1
    /\ UNCHANGED <<pc, available_runners, projects, filtered_projects,
                   last_changes, run_counts, defect_counts, norm_last_change,
                   norm_runs_count, norm_defects, scored_projects,
                   prioritized_projects, printed, raised, calls>>

\* One pass of "for p in projects" for a ready project out of cooldown:
\* the defect lookup, then the four appends.  now - p.last_modified raises
\* TypeError when last_modified is None, after p was appended to
\* filtered_projects.
FilterKeep ==
    /\ UNCHANGED normalize_vars
    /\ pc = "filter"
    /\ idx <= Len(projects)
    /\ LET p == projects[idx]
       IN  /\ project_ready(p)
           /\ ~in_cooldown(p)
           /\ inspected' = inspected \cup {p.id}
           /\ calls' = Append(calls, <<"get_defect_count", p.id>>)
           /\ \E answer \in DefectDojoAnswers(p) :
                LET r == get_defect_count(answer)
                IN  IF r.raised
                    THEN /\ pc' = "raised"
                         /\ raised' = "get_defect_count"
                         /\ UNCHANGED <<idx, filtered_projects, last_changes,
                                        run_counts, defect_counts>>
                    ELSE IF change_age(p).raised
                    THEN /\ pc' = "raised"
                         /\ raised' = "last_modified"
                         /\ filtered_projects' = Append(filtered_projects, p)
                         /\ UNCHANGED <<idx, last_changes, run_counts,
                                        defect_counts>>
                    ELSE /\ filtered_projects' = Append(filtered_projects, p)
                         /\ last_changes' =
                                Append(last_changes, change_age(p).value)
                         /\ run_counts' =
                                Append(run_counts, p.pipeline_run_count)
                         /\ defect_counts' = Append(defect_counts, r.value)
                         /\ idx' = idx + 1
                         /\ UNCHANGED <<pc, raised>>
    /\ UNCHANGED <<available_runners, projects, norm_last_change,
                   norm_runs_count, norm_defects, scored_projects,
                   prioritized_projects, printed>>

\* "if not filtered_projects: return []", and schedule_pipelines' return on
\* the empty result.
ReturnEmpty ==
    /\ UNCHANGED normalize_vars
    /\ pc = "filter"
    /\ idx > Len(projects)
    /\ filtered_projects = <<>>
    /\ prioritized_projects' = <<>>
    /\ printed' = "NoEligibleProjects"
    /\ pc' = "done"
    /\ UNCHANGED <<available_runners, projects, rank_locals, raised, calls,
                   inspected>>

\* The rest of prioritize_projects once the for loop has kept a project
\* (the three normalizations, the scoring loop, the sort, the return of the
\* projects), then the end of schedule_pipelines: the dispatch is commented
\* out and the closing message is printed.
ScoreAndSort ==
    /\ UNCHANGED normalize_vars
    /\ pc = "filter"
    /\ idx > Len(projects)
    /\ filtered_projects # <<>>
    /\ calls' = Append(calls, <<"normalize", 0>>)
    /\ norm_last_change' = normalize(last_changes)
    /\ norm_runs_count' = InvertAll(normalize(run_counts))
    /\ norm_defects' = normalize(defect_counts)
    /\ scored_projects' = RankFiltered(filtered_projects, last_changes,
                                       run_counts, defect_counts)
    /\ prioritized_projects' =
           [k \in 1..Len(filtered_projects) |-> scored_projects'[k].p]
    /\ printed' = "Ranked"
    /\ pc' = "done"
    /\ UNCHANGED <<available_runners, projects, idx, filtered_projects,
                   last_changes, run_counts, defect_counts, raised, inspected>>

Next ==
    \/ Step1
    \/ Step2
    \/ Step3
    \/ FilterSkip
    \/ FilterKeep
    \/ ReturnEmpty
    \/ ScoreAndSort

Spec == Init /\ [][Next]_vars

\* ------------------------------------------------- normalize on its own

\* The arguments normalize is called with.
ValueLists ==
    UNION { [1..len -> -1..MaxVal] : len \in 0..MaxLen }

InitNormalize ==
    /\ CycleInit
    /\ norm_pc = "call"
    /\ values \in ValueLists
    /\ normalized = <<>>

\* normalized = self.normalize(values)
NormalizeCall ==
    /\ norm_pc = "call"
    /\ normalized' = normalize(values)
    /\ norm_pc' = "return"
    /\ UNCHANGED <<values, cycle_vars>>

NextNormalize == NormalizeCall

SpecNormalize == InitNormalize /\ [][NextNormalize]_vars


\* ===================================================================
\* Properties.  The predicates below restate the specification's words
\* on the inputs and outputs; they do not use the operators above that
\* model the code's tests.
\* ===================================================================

\* mainBranchExists AND hasPipelineDefinition
IsReady(p) == p.main_branch_exists = TRUE /\ p.has_gitlab_ci_file = TRUE

\* lastPipelineRun is present and now - lastPipelineRun < 24 hours
IsInCooldown(p) ==
    /\ p.last_pipeline_run # None
    /\ Now - p.last_pipeline_run[1] < 24 * 60 * 60

IsEligible(p) == IsReady(p) /\ ~IsInCooldown(p)

\* prioritize_projects returned (to schedule_pipelines, which then ended).
RankReturned == pc = "done" /\ printed \in {"Ranked", "NoEligibleProjects"}

InOutput(p) ==
    \E k \in 1..Len(prioritized_projects) : prioritized_projects[k] = p

\* The place of the project with this id in the output.
OutputPos(id) ==
    CHOOSE k \in 1..Len(prioritized_projects) : prioritized_projects[k].id = id

\* The ids of the eligible projects, in input order.
RECURSIVE EligibleIdsUpTo(_)
EligibleIdsUpTo(n) ==
    IF n = 0 THEN <<>>
    ELSE IF IsEligible(projects[n])
         THEN Append(EligibleIdsUpTo(n - 1), projects[n].id)
         ELSE EligibleIdsUpTo(n - 1)

EligibleIds == EligibleIdsUpTo(Len(projects))

\* The ids get_defect_count was called for, in call order.
RECURSIVE LookupIdsUpTo(_)
LookupIdsUpTo(n) ==
    IF n = 0 THEN <<>>
    ELSE IF calls[n][1] = "get_defect_count"
         THEN Append(LookupIdsUpTo(n - 1), calls[n][2])
         ELSE LookupIdsUpTo(n - 1)

LookupIds == LookupIdsUpTo(Len(calls))

IsPrefix(a, b) == Len(a) <= Len(b) /\ SubSeq(b, 1, Len(a)) = a

\* ---------------------------------------------------------------- C1

\* C1: a project whose main branch or CI file is missing is never in the
\* output of prioritize_projects, whatever its other fields are, and every
\* project in the output has both.
C1_NotReadyNeverRanked ==
    /\ \A j \in 1..Len(projects) :
         (projects[j].main_branch_exists = FALSE
            \/ projects[j].has_gitlab_ci_file = FALSE)
         => ~InOutput(projects[j])
    /\ \A k \in 1..Len(prioritized_projects) :
         IsReady(prioritized_projects[k])

\* A ranking was returned for a list holding a project without the CI file
\* and one without the branch, each with an old commit.
C1_Witness ==
    /\ pc = "done" /\ printed = "Ranked"
    /\ \E j \in 1..Len(projects) :
         /\ projects[j].main_branch_exists /\ ~projects[j].has_gitlab_ci_file
         /\ projects[j].last_modified = OlderCommit
    /\ \E j \in 1..Len(projects) :
         /\ ~projects[j].main_branch_exists /\ projects[j].has_gitlab_ci_file
         /\ projects[j].last_modified = OlderCommit

\* ---------------------------------------------------------------- C2

\* C2: when prioritize_projects returns, a ready project with a last commit
\* is missing from the output iff its last pipeline run is present and less
\* than 24 hours before now; a run exactly 24 hours old does not exclude,
\* and neither does the absence of a run.
C2_CooldownExcludesExactly ==
    RankReturned =>
      \A j \in 1..Len(projects) :
        (IsReady(projects[j]) /\ projects[j].last_modified # None)
        => (~InOutput(projects[j]) <=> IsInCooldown(projects[j]))

\* A ranking that holds a project last run exactly 24 hours ago and one
\* never run, and leaves out one run a second later.
C2_Witness ==
    /\ pc = "done" /\ printed = "Ranked"
    /\ \E a, b, c \in 1..Len(projects) :
         /\ IsReady(projects[a]) /\ projects[a].last_modified # None
         /\ projects[a].last_pipeline_run = RunAtCooldown
         /\ InOutput(projects[a])
         /\ IsReady(projects[b]) /\ projects[b].last_modified # None
         /\ projects[b].last_pipeline_run = RunInsideCooldown
         /\ ~InOutput(projects[b])
         /\ IsReady(projects[c]) /\ projects[c].last_modified # None
         /\ projects[c].last_pipeline_run = None
         /\ InOutput(projects[c])

\* ---------------------------------------------------------------- C3

\* C3: the output is ordered by score, highest first, and two kept projects
\* of equal score keep their input order (ids number the input positions).
C3_SortedDescendingStable ==
    (pc = "done" /\ printed = "Ranked") =>
      /\ Len(prioritized_projects) = Len(scored_projects)
      /\ \A k \in 1..Len(scored_projects) :
           prioritized_projects[k] = scored_projects[k].p
      /\ \A a, b \in 1..Len(scored_projects) :
           a < b =>
             /\ FLeq(scored_projects[b].score, scored_projects[a].score)
             /\ scored_projects[a].score = scored_projects[b].score
                => scored_projects[a].p.id < scored_projects[b].p.id

\* A ranking of three in which the first kept project scores lowest and the
\* other two score the same: the sort moved the first behind the tie.
C3_Witness ==
    /\ pc = "done" /\ printed = "Ranked"
    /\ Len(scored_projects) = 3
    /\ scored_projects[1].score = scored_projects[2].score
    /\ FLess(scored_projects[3].score, scored_projects[2].score)
    /\ scored_projects[3].p.id = 1

\* ---------------------------------------------------------------- C4

AllEqual(vs) == \A a, b \in 1..Len(vs) : vs[a] = vs[b]

\* C4: normalize returns a list of the same length; the empty list for the
\* empty list; 1/2 everywhere when all values agree; otherwise
\* (values[i] - min) / (max - min) at position i, which lies in [0, 1], is 0
\* at the minimum and 1 at the maximum, and is monotone in values[i].
C4_NormalizeContract ==
    norm_pc = "return" =>
      /\ Len(normalized) = Len(values)
      /\ values = <<>> => normalized = <<>>
      /\ (values # <<>> /\ AllEqual(values)) =>
           \A k \in 1..Len(values) : normalized[k] = [num |-> 1, den |-> 2]
      /\ (values # <<>> /\ ~AllEqual(values)) =>
           LET lo == SeqMin(values)
               hi == SeqMax(values)
           IN  /\ \A k \in 1..Len(values) :
                    /\ normalized[k].den > 0
                    /\ normalized[k].num * (hi - lo)
                         = (values[k] - lo) * normalized[k].den
                    /\ 0 <= normalized[k].num
                    /\ normalized[k].num <= normalized[k].den
                    /\ values[k] = lo => normalized[k].num = 0
                    /\ values[k] = hi => normalized[k].num = normalized[k].den
               /\ \A a, b \in 1..Len(values) :
                    values[a] <= values[b]
                    => FLeq(normalized[a], normalized[b])

\* normalize([1, 2, 3]) returned [0, 1/2, 1].
C4_Witness ==
    /\ norm_pc = "return"
    /\ values = <<1, 2, 3>>
    /\ normalized = <<[num |-> 0, den |-> 1], [num |-> 1, den |-> 2],
                      [num |-> 1, den |-> 1]>>

\* ---------------------------------------------------------------- C5

CallNames == [k \in 1..Len(calls) |-> calls[k][1]]

\* The calls of schedule_pipelines itself, in order.
CycleCalls == SelectSeq(CallNames, LAMBDA c : c \in
    {"get_available_runners", "get_fuzzing_projects", "prioritize_projects"})

FourOutcomes == {"NoRunners", "NoProjects", "NoEligibleProjects", "Ranked"}

\* The order of the steps and what each outcome means.
C5_ShortCircuit ==
    LET cc == CycleCalls
        n == Len(cc)
    IN  /\ IsPrefix(cc, <<"get_available_runners", "get_fuzzing_projects",
                          "prioritize_projects">>)
        /\ n >= 2 => available_runners > 0
        /\ n >= 3 => projects # <<>>
        /\ printed = "NoRunners" =>
             available_runners = 0 /\ calls = <<<<"get_available_runners", 0>>>>
        /\ printed = "NoProjects" =>
             /\ projects = <<>>
             /\ calls = <<<<"get_available_runners", 0>>,
                          <<"get_fuzzing_projects", 0>>>>
        /\ printed = "NoEligibleProjects" =>
             n = 3 /\ prioritized_projects = <<>>
        /\ printed = "Ranked" =>
             n = 3 /\ prioritized_projects # <<>>
        /\ (pc = "done" /\ n = 1) => printed = "NoRunners"
        /\ (pc = "done" /\ n = 2) => printed = "NoProjects"
        /\ (pc = "done" /\ n = 3) =>
             printed = (IF prioritized_projects = <<>>
                        THEN "NoEligibleProjects" ELSE "Ranked")

C6_Original ==
    /\ raised # "get_defect_count"
    /\ (pc \in {"done", "raised"} /\ Len(CycleCalls) = 3
        /\ \A j \in 1..Len(projects) :
             IsEligible(projects[j]) => projects[j].last_modified # None)
       => /\ pc = "done"
          /\ \A j \in 1..Len(projects) :
               IsEligible(projects[j]) => InOutput(projects[j])

\* ---------------------------------------------------------------- C7

\* C7: of two kept projects, one with a strictly older commit, strictly
\* fewer runs and strictly more defects than the other comes strictly
\* before it in the output, whatever else is kept.
C7_DominantRanksFirst ==
    (pc = "done" /\ printed = "Ranked") =>
      \A a, b \in 1..Len(filtered_projects) :
        ( /\ filtered_projects[a].last_modified[1]
               < filtered_projects[b].last_modified[1]
          /\ filtered_projects[a].pipeline_run_count
               < filtered_projects[b].pipeline_run_count
          /\ defect_counts[a] > defect_counts[b] )
        => /\ InOutput(filtered_projects[a])
           /\ InOutput(filtered_projects[b])
           /\ OutputPos(filtered_projects[a].id)
                < OutputPos(filtered_projects[b].id)

\* Three kept projects; the dominant one is discovered last, the dominated
\* one first, and the output has the dominant one first.
C7_Witness ==
    /\ pc = "done" /\ printed = "Ranked"
    /\ Len(filtered_projects) = 3
    /\ filtered_projects[3].last_modified[1] < filtered_projects[1].last_modified[1]
    /\ filtered_projects[3].pipeline_run_count
         < filtered_projects[1].pipeline_run_count
    /\ defect_counts[3] > defect_counts[1]
    /\ prioritized_projects[1] = filtered_projects[3]
    /\ prioritized_projects[3] = filtered_projects[1]

\* ---------------------------------------------------------------- C8

\* The eligible projects, in input order, and their signals.
Kept == SelectSeq(projects, IsEligible)
KeptChangeAge == [k \in 1..Len(Kept) |-> Now - Kept[k].last_modified[1]]
KeptRunCount == [k \in 1..Len(Kept) |-> Kept[k].pipeline_run_count]

\* normalizedChangeAge[k]*0.3 + (1 - normalizedRunCount[k])*0.2
\*   + normalizedDefects[k]*0.4, for each eligible project k.
ExpectedScores ==
    LET nc == normalize(KeptChangeAge)
        nr == normalize(KeptRunCount)
        nd == normalize(defect_counts)
    IN  [k \in 1..Len(Kept) |->
            FAdd(FAdd(FMul(nc[k], Frac(3, 10)),
                      FMul(FSub(FInt(1), nr[k]), Frac(2, 10))),
                 FMul(nd[k], Frac(4, 10)))]

\* C8: the k-th eligible project's score is the weighted sum of its three
\* signals, each normalized over the eligible projects only and taken at
\* position k; every score lies in [0, 1]; the scenario's projects with the
\* scenario's defect counts come out in the order 3, 1, 2.
C8_ScoreFormula ==
    /\ (pc = "done" /\ printed = "Ranked" /\ projects = ScenarioProjects
        /\ defect_counts = ScenarioDefects) =>
         [k \in 1..3 |-> prioritized_projects[k].id] = <<3, 1, 2>>
    /\ (pc = "done" /\ printed = "Ranked") =>
         LET kept == Kept
             expected == ExpectedScores
         IN  /\ filtered_projects = kept
             /\ last_changes = KeptChangeAge
             /\ run_counts = KeptRunCount
             /\ Len(defect_counts) = Len(kept)
             /\ Len(scored_projects) = Len(kept)
             /\ \A k \in 1..Len(kept) :
                  \E m \in 1..Len(scored_projects) :
                    /\ scored_projects[m].p = kept[k]
                    /\ scored_projects[m].score = expected[k]
                    /\ FLeq(FInt(0), scored_projects[m].score)
                    /\ FLeq(scored_projects[m].score, FInt(1))

\* The scenario was ranked: run counts 10, 0, 5, change ages 100000, 50,
\* 200000, defect counts 2, 0, 8; project 3 scores 4/5, project 2 1/5 and
\* project 1 1666/6665 in between.
C8_Witness ==
    /\ pc = "done" /\ printed = "Ranked"
    /\ run_counts = <<10, 0, 5>>
    /\ last_changes = <<100000, 50, 200000>>
    /\ defect_counts = <<2, 0, 8>>
    /\ Len(prioritized_projects) = 3
    /\ scored_projects[1].score = [num |-> 4, den |-> 5]
    /\ scored_projects[3].score = [num |-> 1, den |-> 5]

\* ---------------------------------------------------------------- C9

\* An eligible project without a last commit.
NoCommitEligible(p) == IsEligible(p) /\ p.last_modified = None

\* C9: when an eligible project has no last_modified, prioritize_projects
\* never returns: the for loop does not finish, the cycle does not end
\* normally, nothing is scored or ranked, and every change age recorded is
\* now - last_modified of a project that has one.
C9_MissingLastModifiedFails ==
    /\ (\E j \in 1..Len(projects) : NoCommitEligible(projects[j])) =>
         /\ pc \in {"step3", "filter", "raised"}
         /\ ~(pc = "filter" /\ idx > Len(projects))
         /\ scored_projects = <<>>
         /\ prioritized_projects = <<>>
         /\ printed = "start"
    /\ (\E j \in 1..Len(projects) :
          j < idx /\ NoCommitEligible(projects[j])) => pc = "raised"
    /\ Len(last_changes) <= Len(filtered_projects)
    /\ \A k \in 1..Len(last_changes) :
         /\ filtered_projects[k].last_modified # None
         /\ last_changes[k] = Now - filtered_projects[k].last_modified[1]

\* The second of three projects is eligible and has no commit; the first
\* was kept; the call raised at the second.
C9_Witness ==
    /\ pc = "raised" /\ raised = "last_modified"
    /\ Len(projects) = 3
    /\ idx = 2
    /\ NoCommitEligible(projects[2])
    /\ Len(last_changes) = 1
    /\ IsEligible(projects[3]) /\ projects[3].last_modified # None

\* --------------------------------------------------------------- C10

\* C10: get_defect_count is called only for eligible projects, once each,
\* in input order; the timestamps of a project that is not ready are never
\* read; when the normalizations start every eligible project has been
\* looked up and no lookup follows.
C10_LookupsOnlyForEligible ==
    LET looked == LookupIds
        eligible == EligibleIds
    IN  /\ IsPrefix(looked, eligible)
        /\ \A j \in 1..Len(projects) :
             projects[j].id \in inspected => IsReady(projects[j])
        /\ \A n \in 1..Len(calls) :
             calls[n][1] = "normalize" =>
               /\ n = Len(calls)
               /\ looked = eligible

\* A ranking of two after two lookups, with a project that is not ready
\* between them.
C10_Witness ==
    /\ pc = "done" /\ printed = "Ranked"
    /\ Len(projects) = 3
    /\ ~IsReady(projects[2])
    /\ LookupIds = <<1, 3>>
    /\ inspected = {1, 3}
    /\ calls[Len(calls)][1] = "normalize"

====
